---------------------------- MODULE Spec2Model ----------------------------
(***************************************************************************)
(* A model of convert_ga_to_akn.py: the conversion of the Georgia code's   *)
(* XML export to Akoma Ntoso.                                              *)
(*                                                                         *)
(* Text is a sequence of tokens.  A token is one character, one entity     *)
(* reference (a character escaped n times: "&lt;" is "<" escaped once,     *)
(* "&amp;lt;" is "<" escaped twice), one subsection marker "(a)" or "(1)", *)
(* or a run of n plain characters.  Every regular expression of the source *)
(* reads markers, whitespace, "<" and ">" only as wholes, so it is stated  *)
(* on tokens exactly as the source states it on characters; lengths are    *)
(* counted in characters (CharLen).                                        *)
(***************************************************************************)
EXTENDS Integers, Sequences, FiniteSets, TLC

VARIABLES
    pc,            \* the position of the operation under check
    html_content,  \* clean_html_content: its argument
    cleaned,       \* clean_html_content(html_content)
    recleaned,     \* clean_html_content(cleaned)
    text,          \* a section's body text (the record's "text")
    history,       \* a section's history note (the record's "history")
    subsections,   \* parse_subsections(text)
    sec_elem,      \* the section element add_section_element builds
    title_num,     \* create_akn_document: the title number
    sections,      \* create_akn_document: the section records
    today,         \* date.today(), as a day number
    akn_doc,       \* create_akn_document(title_num, sections)
    akn_doc2,      \* the same call, made again later
    source,        \* parse_source_xml: the Index elements of the source
    records,       \* parse_source_xml(source)
    xml_files,     \* main: the sorted source files
    file_idx,      \* main: the index of the file the loop is at
    cur,           \* main: the locals of the iteration (sections, akn_doc, xml_str)
    stats,         \* main: the three counters
    outdir,        \* main: the output directory, output file name -> content
    log            \* main: what each file's iteration ended with, and the summary

cleanVars == <<html_content, cleaned, recleaned>>
parseVars == <<text, history, subsections, sec_elem>>
docVars   == <<title_num, sections, today, akn_doc, akn_doc2>>
xmlVars   == <<source, records>>
mainVars  == <<xml_files, file_idx, cur, stats, outdir, log>>
vars == <<pc, cleanVars, parseVars, docVars, xmlVars, mainVars>>

None == [none |-> TRUE]

-----------------------------------------------------------------------------
(* Tokens *)

Chr(c)    == [k |-> "c", v |-> c, n |-> 1]
Ent(c, d) == [k |-> "e", v |-> c, n |-> d]
LMark(x)  == [k |-> "L", v |-> x, n |-> 3]
NMark(x)  == [k |-> "N", v |-> x, n |-> 3]
Run(n)    == [k |-> "W", v |-> "x", n |-> n]

NL == Chr("\n")
SP == Chr(" ")
LT == Chr("<")
GT == Chr(">")

\* The number of characters of a token: "&lt;" has 4, each further level of
\* escaping turns its "&" into "&amp;".
CharLen(t) == IF t.k = "e" THEN 4 * t.n ELSE t.n

RECURSIVE StrLen(_)
StrLen(s) == IF s = <<>> THEN 0 ELSE CharLen(Head(s)) + StrLen(Tail(s))

IsWs(t)   == t.k = "c" /\ t.v \in {" ", "\n"}
IsChr(t, c) == t.k = "c" /\ t.v = c
IsL(t)    == t.k = "L"
IsN(t)    == t.k = "N"

\* s[i:] and s[:i] of Python, i counted in tokens from 0.
From(s, i) == SubSeq(s, i + 1, Len(s))
Upto(s, i) == SubSeq(s, 1, i)

\* str.strip()
RECURSIVE LStrip(_)
LStrip(s) == IF s # <<>> /\ IsWs(Head(s)) THEN LStrip(Tail(s)) ELSE s

RECURSIVE RStrip(_)
RStrip(s) ==
    IF s # <<>> /\ IsWs(s[Len(s)]) THEN RStrip(Upto(s, Len(s) - 1)) ELSE s

Strip(s) == RStrip(LStrip(s))

\* A slice that counts tokens where the source counts characters.
TruncateTokens(s, limit) == SubSeq(s, 1, IF Len(s) < limit THEN Len(s) ELSE limit)

\* s[:limit], limit counted in characters.  A token the cut falls into keeps
\* its first characters, which are plain characters from then on.
RECURSIVE Truncate(_, _)
Truncate(s, limit) ==
    IF s = <<>> \/ limit <= 0 THEN <<>>
    ELSE IF CharLen(Head(s)) <= limit
         THEN <<Head(s)>> \o Truncate(Tail(s), limit - CharLen(Head(s)))
         ELSE <<Run(limit)>>

-----------------------------------------------------------------------------
(* clean_html_content *)

\* html.unescape: every entity reference loses one level of escaping.
UnescapeTok(t) ==
    IF t.k = "e" THEN (IF t.n = 1 THEN Chr(t.v) ELSE Ent(t.v, t.n - 1)) ELSE t

unescape(s) == [i \in 1..Len(s) |-> UnescapeTok(s[i])]

\* re.IGNORECASE on the letters of the tag names.
Lower(c) ==
    CASE c = "B" -> "b" [] c = "P" -> "p" [] c = "R" -> "r" [] OTHER -> c

\* The literal lit (a sequence of characters) matches s at token i (from 1).
LitAt(lit, s, i) ==
    /\ i + Len(lit) - 1 <= Len(s)
    /\ \A j \in 1..Len(lit) :
          s[i + j - 1].k = "c" /\ Lower(s[i + j - 1].v) = lit[j]

\* The least j >= i with s[j] = ">", or 0.
RECURSIVE NextGt(_, _)
NextGt(s, i) ==
    IF i > Len(s) THEN 0
    ELSE IF IsChr(s[i], ">") THEN i ELSE NextGt(s, i + 1)

\* The end of the whitespace run that starts at i: the least j >= i with s[j]
\* no whitespace (Len(s) + 1 when there is none).
RECURSIVE WsEnd(_, _)
WsEnd(s, i) ==
    IF i > Len(s) \/ ~IsWs(s[i]) THEN i ELSE WsEnd(s, i + 1)

\* The greatest j in lo..hi with s[j] = "\n", or 0.
RECURSIVE LastNl(_, _, _)
LastNl(s, lo, hi) ==
    IF hi < lo THEN 0
    ELSE IF IsChr(s[hi], "\n") THEN hi ELSE LastNl(s, lo, hi - 1)

\* The length in tokens of the match of pattern pat that starts at token i
\* of s, 0 when there is none.  No pattern matches the empty string.
MatchLen(pat, s, i) ==
    CASE pat = "<BR\\s*/?>" ->
           IF ~LitAt(<<"<", "b", "r">>, s, i) THEN 0
           ELSE LET j == WsEnd(s, i + 3)
                    m == IF j <= Len(s) /\ IsChr(s[j], "/") THEN j + 1 ELSE j
                IN  IF m <= Len(s) /\ IsChr(s[m], ">") THEN m - i + 1 ELSE 0
      [] pat = "<P>" -> IF LitAt(<<"<", "p", ">">>, s, i) THEN 3 ELSE 0
      [] pat = "</P>" -> IF LitAt(<<"<", "/", "p", ">">>, s, i) THEN 4 ELSE 0
      [] pat = "<STRONG>|</STRONG>" ->
           IF LitAt(<<"<", "s", "t", "r", "o", "n", "g", ">">>, s, i) THEN 8
           ELSE IF LitAt(<<"<", "/", "s", "t", "r", "o", "n", "g", ">">>, s, i)
                THEN 9 ELSE 0
      [] pat = "<B>|</B>" ->
           IF LitAt(<<"<", "b", ">">>, s, i) THEN 3
           ELSE IF LitAt(<<"<", "/", "b", ">">>, s, i) THEN 4 ELSE 0
      [] pat = "<FONT[^>]*>|</FONT>" ->
           IF LitAt(<<"<", "f", "o", "n", "t">>, s, i)
           THEN (IF NextGt(s, i + 5) = 0 THEN 0 ELSE NextGt(s, i + 5) - i + 1)
           ELSE IF LitAt(<<"<", "/", "f", "o", "n", "t", ">">>, s, i)
                THEN 7 ELSE 0
      [] pat = "<[^>]+>" ->
           IF IsChr(s[i], "<") /\ NextGt(s, i + 1) > i + 1
           THEN NextGt(s, i + 1) - i + 1 ELSE 0
      [] pat = "\\n\\s*\\n+" ->
           IF ~IsChr(s[i], "\n") THEN 0
           ELSE LET last == LastNl(s, i + 1, WsEnd(s, i + 1) - 1)
                IN  IF last = 0 THEN 0 ELSE last - i + 1

\* re.sub(pat, repl, s): the matches are replaced from left to right, the
\* search going on after each match.
RECURSIVE SubFrom(_, _, _, _)
SubFrom(pat, repl, s, i) ==
    IF i > Len(s) THEN <<>>
    ELSE LET m == MatchLen(pat, s, i)
         IN  IF m > 0 THEN repl \o SubFrom(pat, repl, s, i + m)
             ELSE <<s[i]>> \o SubFrom(pat, repl, s, i + 1)

re_sub(pat, repl, s) == SubFrom(pat, repl, s, 1)

\* The tag passes of clean_html_content, in the order of the source.
remove_tags(s) ==
    LET t1 == re_sub("<BR\\s*/?>", <<NL>>, s)
        t2 == re_sub("<P>", <<NL>>, t1)
        t3 == re_sub("</P>", <<>>, t2)
        t4 == re_sub("<STRONG>|</STRONG>", <<>>, t3)
        t5 == re_sub("<B>|</B>", <<>>, t4)
        t6 == re_sub("<FONT[^>]*>|</FONT>", <<>>, t5)
    IN  re_sub("<[^>]+>", <<>>, t6)

\* A clean_html_content that decodes the entities after the tags are removed.
clean_unescape_last(s) ==
    Strip(re_sub("\\n\\s*\\n+", <<NL, NL>>, unescape(remove_tags(s))))

clean_html_content(s) ==
    Strip(re_sub("\\n\\s*\\n+", <<NL, NL>>, remove_tags(unescape(s))))

-----------------------------------------------------------------------------
(* extract_section_number, create_eid *)

Digits == {"0", "1", "2", "3", "4", "5", "6", "7", "8", "9"}

\* The end of the run of digits that starts at i: the least j >= i with s[j]
\* no digit.
RECURSIVE DigitsEnd(_, _)
DigitsEnd(s, i) ==
    IF i > Len(s) \/ s[i] \notin Digits THEN i ELSE DigitsEnd(s, i + 1)

\* The end (exclusive) of the match of \d+-\d+-\d+ that starts at i, 0 when
\* there is none.  \d+ is greedy and nothing after it can take a digit, so
\* each run of digits is taken whole.
ThreePartEnd(s, i) ==
    LET a == DigitsEnd(s, i)
        b == DigitsEnd(s, a + 1)
        c == DigitsEnd(s, b + 1)
    IN  IF /\ a > i /\ a <= Len(s) /\ s[a] = "-"
           /\ b > a + 1 /\ b <= Len(s) /\ s[b] = "-"
           /\ c > b + 1
        THEN c ELSE 0

\* The end (exclusive) of the match of \d+-\d+-\d+(?:\.\d+)? that starts at i.
SectionNumberEnd(s, i) ==
    LET c == ThreePartEnd(s, i)
        d == DigitsEnd(s, c + 1)
    IN  IF c = 0 THEN 0
        ELSE IF c <= Len(s) /\ s[c] = "." /\ d > c + 1 THEN d ELSE c

\* re.search: the least position a match starts at, 0 when there is none.
RECURSIVE SearchThreePart(_, _)
SearchThreePart(s, i) ==
    IF i > Len(s) THEN 0
    ELSE IF ThreePartEnd(s, i) > 0 THEN i ELSE SearchThreePart(s, i + 1)

\* str.replace(old, new) on single characters.
replace(s, old, new) == [i \in 1..Len(s) |-> IF s[i] = old THEN new ELSE s[i]]

extract_section_number(caption) ==
    LET i == SearchThreePart(caption, 1)
    IN  IF i > 0 THEN SubSeq(caption, i, SectionNumberEnd(caption, i) - 1)
        ELSE replace(replace(caption, " ", "-"), ".", "-")

create_eid(section_num) == <<"sec_">> \o section_num

-----------------------------------------------------------------------------
(* parse_subsections *)

MaxSubText == 2000

\* The least j >= i with s[j] a marker of one of the kinds, or 0:
\* re.search(r"\(\d+\)") with kinds {"N"}, re.search(r"\([a-z]\)") with
\* {"L"}, re.search(r"\([a-z]\)|\(\d+\)") with both.
RECURSIVE FirstMarker(_, _, _)
FirstMarker(s, kinds, i) ==
    IF i > Len(s) THEN 0
    ELSE IF s[i].k \in kinds THEN i ELSE FirstMarker(s, kinds, i + 1)

\* The lookahead (?=\([a-z]\)\s) or (?=\(\d+\)\s) matches before token i.
SplitPoint(s, kind, i) == s[i].k = kind /\ i < Len(s) /\ IsWs(s[i + 1])

\* re.split on a lookahead: the text is cut before every marker of the kind
\* that whitespace follows; a cut before the first token leaves an empty
\* first part.
RECURSIVE SplitFrom(_, _, _, _)
SplitFrom(s, kind, start, i) ==
    IF i > Len(s) THEN <<SubSeq(s, start, Len(s))>>
    ELSE IF SplitPoint(s, kind, i)
         THEN <<SubSeq(s, start, i - 1)>> \o SplitFrom(s, kind, i, i + 1)
         ELSE SplitFrom(s, kind, start, i + 1)

\* A split before every marker of the kind, whitespace after it or not.
split_any_marker(s, kind) ==
    LET cut[i \in 1..(Len(s) + 1), start \in 1..(Len(s) + 1)] ==
            IF i > Len(s) THEN <<SubSeq(s, start, Len(s))>>
            ELSE IF s[i].k = kind
                 THEN <<SubSeq(s, start, i - 1)>> \o cut[i + 1, i]
                 ELSE cut[i + 1, start]
    IN  cut[1, 1]

re_split(s, kind) == SplitFrom(s, kind, 1, 1)

\* re.match(r"\(([a-z])\)\s*", part) or re.match(r"\((\d+)\)\s*", part):
\* match.end() in tokens, 0 when the part does not start with the marker.
MarkerEnd(part, kind) ==
    IF part # <<>> /\ part[1].k = kind THEN WsEnd(part, 2) - 1 ELSE 0

\* Lines 99-112: the child of one part of the numbered block.
NumChild(num_part) ==
    LET num_text    == Strip(From(num_part, MarkerEnd(num_part, "N")))
        next_marker == FirstMarker(num_text, {"L", "N"}, 1)
        cut         == IF next_marker > 0
                       THEN Strip(Upto(num_text, next_marker - 1))
                       ELSE num_text
    IN  [identifier |-> num_part[1].v,
         text       |-> Truncate(cut, MaxSubText),
         children   |-> <<>>]

\* Lines 78-123: the node of one part of the text.
SubNode(part) ==
    LET content       == From(part, MarkerEnd(part, "L"))
        numeric_match == FirstMarker(content, {"N"}, 1)
        direct_text   == IF numeric_match > 0
                         THEN Strip(Upto(content, numeric_match - 1))
                         ELSE Strip(content)
        remaining     == IF numeric_match > 0
                         THEN From(content, numeric_match - 1)
                         ELSE <<>>
        num_parts     == IF remaining # <<>>
                         THEN Tail(re_split(remaining, "N"))
                         ELSE <<>>
        matched       == SelectSeq(num_parts, LAMBDA p : MarkerEnd(p, "N") > 0)
        children      == [i \in 1..Len(matched) |-> NumChild(matched[i])]
        next_sub      == FirstMarker(direct_text, {"L"}, 1)
        direct_cut    == IF next_sub > 0
                         THEN Strip(Upto(direct_text, next_sub - 1))
                         ELSE direct_text
    IN  [identifier |-> part[1].v,
         text       |-> Truncate(direct_cut, MaxSubText),
         children   |-> children]

parse_subsections(s) ==
    LET parts   == Tail(re_split(s, "L"))
        matched == SelectSeq(parts, LAMBDA p : MarkerEnd(p, "L") > 0)
    IN  [i \in 1..Len(matched) |-> SubNode(matched[i])]

-----------------------------------------------------------------------------
(* The document tree: add_subsection_element, add_section_element,
   create_akn_document *)

MaxIntro   == 500
MaxContent == 5000
MaxNote    == 1000

\* An ElementTree element: its tag, its attributes, its text and its children
\* in document order.
El(tag, attrs, txt, kids) ==
    [tag |-> tag, attrs |-> attrs, text |-> txt, kids |-> kids]

NoAttrs == <<>>
NoText  == <<>>

\* dict.get(key, default)
Get(d, key, default) == IF key \in DOMAIN d THEN d[key] ELSE default

DigitSeq == <<"0", "1", "2", "3", "4", "5", "6", "7", "8", "9">>

\* str(n) and f"{n:02d}" of a natural number, int(s) of a string of digits.
RECURSIVE IntStr(_)
IntStr(n) ==
    IF n < 10 THEN <<DigitSeq[n + 1]>>
    ELSE IntStr(n \div 10) \o <<DigitSeq[(n % 10) + 1]>>

Pad2(n) == IF n < 10 THEN <<"0">> \o IntStr(n) ELSE IntStr(n)

DigitVal(c) == CHOOSE d \in 0..9 : DigitSeq[d + 1] = c

RECURSIVE StrInt(_)
StrInt(s) ==
    IF s = <<>> THEN 0
    ELSE 10 * StrInt(Upto(s, Len(s) - 1)) + DigitVal(s[Len(s)])

\* Lines 305-317: the paragraph element of one child of a subsection.
ParagraphElement(eid, child) ==
    LET child_eid == eid \o <<"__para_", child.identifier>>
    IN  El("paragraph", [eId |-> child_eid], NoText,
           <<El("num", NoAttrs, <<"(", child.identifier, ")">>, <<>>),
             El("content", NoAttrs, NoText,
                <<El("p", NoAttrs, child.text, <<>>)>>)>>)

add_subsection_element(sub, section_num) ==
    LET eid      == <<"sec_">> \o section_num \o <<"__subsec_", sub.identifier>>
        children == Get(sub, "children", <<>>)
    IN  El("subsection", [eId |-> eid], NoText,
           <<El("num", NoAttrs, <<"(", sub.identifier, ")">>, <<>>),
             El("content", NoAttrs, NoText,
                <<El("p", NoAttrs, sub.text, <<>>)>>)>>
           \o [i \in 1..Len(children) |-> ParagraphElement(eid, children[i])])

\* re.match(r"^(.+?)(?=\([a-z]\))", text, re.DOTALL): the end in tokens of
\* group 1, the shortest non-empty start of the text that a lettered marker
\* follows; 0 when there is no match.
IntroMatch(s) ==
    LET j == FirstMarker(s, {"L"}, 2) IN IF j = 0 THEN 0 ELSE j - 1

\* Lines 261-276: the children of the section element that hold its text.
SectionBody(section) ==
    LET body == Get(section, "text", <<>>)
        subs == Get(section, "subsections", <<>>)
    IN  IF subs # <<>>
        THEN (IF IntroMatch(body) > 0
              THEN <<El("intro", NoAttrs, NoText,
                        <<El("p", NoAttrs,
                             Truncate(Strip(Upto(body, IntroMatch(body))),
                                      MaxIntro),
                             <<>>)>>)>>
              ELSE <<>>)
             \o [i \in 1..Len(subs) |->
                    add_subsection_element(subs[i], section.section_number)]
        ELSE <<El("content", NoAttrs, NoText,
                  <<El("p", NoAttrs, Truncate(body, MaxContent), <<>>)>>)>>

\* Lines 278-284: the history note.
SectionNotes(section) ==
    IF Get(section, "history", <<>>) # <<>>
    THEN <<El("notes", NoAttrs, NoText,
              <<El("note", [type |-> "history"], NoText,
                   <<El("p", NoAttrs, Truncate(section.history, MaxNote),
                        <<>>)>>)>>)>>
    ELSE <<>>

add_section_element(section) ==
    El("section", [eId |-> create_eid(section.section_number)], NoText,
       <<El("num", NoAttrs, section.section_number, <<>>)>>
       \o (IF Get(section, "title", <<>>) # <<>>
           THEN <<El("heading", NoAttrs, section.title, <<>>)>>
           ELSE <<>>)
       \o SectionBody(section)
       \o SectionNotes(section))

\* A date, and date.isoformat() of it (one to one, so the date stands for it).
Date(y, m, d) == [year |-> y, month |-> m, day |-> d]

PublicationDate == Date(2018, 12, 1)

TitleUri(n) == <<"/akn/us-ga/act/ocga/title-">> \o IntStr(n)

FRBRdate(day, name) == El("FRBRdate", [date |-> day, name |-> name], NoText, <<>>)

Valued(tag, value) == El(tag, [value |-> value], NoText, <<>>)

\* Lines 182-184: the manifestation's date is the day of the run.
ManifestationDate(current) == FRBRdate(current, "generation")

\* An expression date taken from the clock.
ExpressionDateOfRun(current) == FRBRdate(current, "publication")

\* Lines 168-170: the expression's date is the publication date.
ExpressionDate(current) == FRBRdate(PublicationDate, "publication")

\* Lines 139-205: the meta block.
Meta(n, current) ==
    El("meta", NoAttrs, NoText,
       <<El("identification", [source |-> "#cosilico"], NoText,
            <<El("FRBRWork", NoAttrs, NoText,
                 <<Valued("FRBRthis", TitleUri(n)),
                   Valued("FRBRuri", TitleUri(n)),
                   FRBRdate(PublicationDate, "publication"),
                   El("FRBRauthor", [href |-> "#ga-legislature"], NoText, <<>>),
                   Valued("FRBRcountry", <<"us-ga">>),
                   Valued("FRBRnumber", IntStr(n))>>),
              El("FRBRExpression", NoAttrs, NoText,
                 <<Valued("FRBRthis", TitleUri(n) \o <<"/eng@2018-12-01">>),
                   Valued("FRBRuri", TitleUri(n) \o <<"/eng@2018-12-01">>),
                   ExpressionDate(current),
                   El("FRBRauthor", [href |-> "#cosilico"], NoText, <<>>),
                   El("FRBRlanguage", [language |-> "eng"], NoText, <<>>)>>),
              El("FRBRManifestation", NoAttrs, NoText,
                 <<Valued("FRBRthis",
                          TitleUri(n) \o <<"/eng@2018-12-01/main.xml">>),
                   Valued("FRBRuri",
                          TitleUri(n) \o <<"/eng@2018-12-01/main.xml">>),
                   ManifestationDate(current),
                   El("FRBRauthor", [href |-> "#cosilico"], NoText, <<>>)>>)>>),
         El("publication",
            [date |-> PublicationDate,
             name |-> "Official Code of Georgia Annotated",
             showAs |-> "OCGA"], NoText, <<>>),
         El("references", NoAttrs, NoText,
            <<El("TLCOrganization",
                 [eId |-> <<"ga-legislature">>,
                  href |-> "/ontology/organization/us-ga/legislature",
                  showAs |-> "Georgia General Assembly"], NoText, <<>>),
              El("TLCOrganization",
                 [eId |-> <<"cosilico">>,
                  href |-> "https://cosilico.ai",
                  showAs |-> "Cosilico"], NoText, <<>>)>>)>>)

\* The code point order of the characters of a chapter key, and Python's
\* order of strings: the first difference decides, a proper prefix is less.
CharOrd(c) ==
    CASE c = "-" -> 45 [] c = "." -> 46 [] c \in Digits -> 48 + DigitVal(c)
      [] OTHER -> 120

RECURSIVE StrLess(_, _)
StrLess(a, b) ==
    IF b = <<>> THEN FALSE
    ELSE IF a = <<>> THEN TRUE
    ELSE IF Head(a) = Head(b) THEN StrLess(Tail(a), Tail(b))
    ELSE CharOrd(Head(a)) < CharOrd(Head(b))

\* The order of the chapter keys read as numbers.
NumLess(a, b) ==
    \/ StrInt(a) < StrInt(b)
    \/ StrInt(a) = StrInt(b) /\ StrLess(a, b)

ChapterLess(a, b) == StrLess(a, b)

\* Lines 211-216: the keys of the dict chapters in the order they were put
\* in, and the list under a key.
RECURSIVE ChapterKeys(_)
ChapterKeys(secs) ==
    IF secs = <<>> THEN <<>>
    ELSE LET rest == ChapterKeys(Upto(secs, Len(secs) - 1))
             key  == Get(secs[Len(secs)], "chapter", <<"0">>)
         IN  IF \E i \in 1..Len(rest) : rest[i] = key THEN rest
             ELSE Append(rest, key)

ChapterSections(secs, key) ==
    SelectSeq(secs, LAMBDA sec : Get(sec, "chapter", <<"0">>) = key)

\* sorted(chapters.items()): the keys are distinct, so they alone decide.
RECURSIVE Sorted(_)
Sorted(keys) ==
    IF keys = <<>> THEN <<>>
    ELSE LET least == CHOOSE i \in 1..Len(keys) :
                         \A j \in 1..Len(keys) :
                            j # i => ChapterLess(keys[i], keys[j])
         IN  <<keys[least]>>
             \o Sorted(Upto(keys, least - 1) \o From(keys, least))

\* Lines 222-235: the chapter element of one key.
ChapterElement(n, chapter_num, chapter_sections) ==
    LET chapter_title == Get(chapter_sections[1], "chapter_title", <<>>)
    IN  El("chapter",
           [eId |-> <<"chp_">> \o IntStr(n) \o <<"-">> \o chapter_num],
           NoText,
           <<El("num", NoAttrs, <<"Chapter ">> \o chapter_num, <<>>)>>
           \o (IF chapter_title # <<>>
               THEN <<El("heading", NoAttrs, chapter_title, <<>>)>>
               ELSE <<>>)
           \o [i \in 1..Len(chapter_sections) |->
                  add_section_element(chapter_sections[i])])

\* Lines 208-235: the body, a chapter for every key but the empty one.
Body(n, secs) ==
    LET keys == SelectSeq(Sorted(ChapterKeys(secs)), LAMBDA key : key # <<>>)
    IN  El("body", NoAttrs, NoText,
           [i \in 1..Len(keys) |->
               ChapterElement(n, keys[i], ChapterSections(secs, keys[i]))])

\* create_akn_document, with the day date.today() returns as an argument.
create_akn_document(n, secs, current) ==
    El("akomaNtoso", NoAttrs, NoText,
       <<El("act", NoAttrs, NoText, <<Meta(n, current), Body(n, secs)>>)>>)

-----------------------------------------------------------------------------
(* parse_source_xml *)

\* An Index element of the source: its Level attribute ("" when it has none),
\* the texts of its Caption, Description, Content and RevisionHistory children
\* (the empty text for a child that is missing or has no text: the source
\* treats the two alike), and the Index elements inside it.
Index(level, caption, description, content, revision, kids) ==
    [Level |-> level, Caption |-> caption, Description |-> description,
     Content |-> content, RevisionHistory |-> revision, kids |-> kids]

\* root.iter("Index"): the Index elements in document order, an element
\* before the elements inside it.
RECURSIVE Iter(_)
Iter(nodes) ==
    IF nodes = <<>> THEN <<>>
    ELSE <<Head(nodes)>> \o Iter(Head(nodes).kids) \o Iter(Tail(nodes))

\* str.strip() of a caption, a sequence of characters.
RECURSIVE CStrip(_)
CStrip(s) ==
    IF s # <<>> /\ Head(s) = " " THEN CStrip(Tail(s))
    ELSE IF s # <<>> /\ s[Len(s)] = " " THEN CStrip(Upto(s, Len(s) - 1))
    ELSE s

\* str.split("-")
RECURSIVE SplitDash(_)
SplitDash(s) ==
    LET i == CHOOSE j \in 1..(Len(s) + 1) :
                /\ j = Len(s) + 1 \/ s[j] = "-"
                /\ \A h \in 1..(j - 1) : s[h] # "-"
    IN  IF i = Len(s) + 1 THEN <<s>>
        ELSE <<Upto(s, i - 1)>> \o SplitDash(From(s, i))

\* A filter that takes level 3 alone.
QualifiesLevel3(index) ==
    /\ index.Level = "3"
    /\ index.Caption # <<>>
    /\ SearchThreePart(CStrip(index.Caption), 1) > 0

\* Lines 329-341: the entry is a section.
Qualifies(index) ==
    /\ index.Level \in {"3", "4"}
    /\ index.Caption # <<>>
    /\ SearchThreePart(CStrip(index.Caption), 1) > 0

\* Lines 343-373: the record of one section entry.
SectionRecord(index) ==
    LET section_number == extract_section_number(CStrip(index.Caption))
        content == IF index.Content # <<>>
                   THEN clean_html_content(index.Content) ELSE <<>>
        parts   == SplitDash(section_number)
    IN  [section_number |-> section_number,
         title          |-> Strip(index.Description),
         text           |-> content,
         history        |-> Strip(index.RevisionHistory),
         chapter        |-> IF Len(parts) > 1 THEN parts[2] ELSE <<>>,
         subsections    |-> parse_subsections(content)]

parse_source_xml(root) ==
    LET kept == SelectSeq(Iter(root), Qualifies)
    IN  [i \in 1..Len(kept) |-> SectionRecord(kept[i])]

-----------------------------------------------------------------------------
(* Inputs *)

MaxHtmlLen == 4

RECURSIVE SeqsUpTo(_, _)
SeqsUpTo(S, n) ==
    IF n = 0 THEN {<<>>}
    ELSE LET shorter == SeqsUpTo(S, n - 1)
         IN  shorter \cup {Append(s, x) : s \in {t \in shorter : Len(t) = n - 1}, x \in S}

\* One escaped and one doubly escaped form of "<" and ">" beside the plain
\* characters of a <b> and a <p> tag and the line break.
HtmlTokens ==
    {LT, GT, Chr("b"), Chr("p"), NL,
     Ent("<", 1), Ent(">", 1), Ent("<", 2), Ent(">", 2)}

\* "<P>(a) x<BR />y</P>", "<font size=2><B>x</B></FONT>", "&lt;/strong&gt; x"
HtmlExamples ==
    {<<LT, Chr("P"), GT, LMark("a"), SP, Run(1), LT, Chr("B"), Chr("R"), SP,
       Chr("/"), GT, Run(1), LT, Chr("/"), Chr("P"), GT>>,
     <<LT, Chr("f"), Chr("o"), Chr("n"), Chr("t"), SP, Run(6), GT, LT, Chr("B"),
       GT, Run(1), LT, Chr("/"), Chr("B"), GT, LT, Chr("/"), Chr("f"), Chr("o"),
       Chr("n"), Chr("t"), GT>>,
     <<Ent("<", 1), Chr("/"), Chr("s"), Chr("t"), Chr("r"), Chr("o"), Chr("n"),
       Chr("g"), Ent(">", 1), SP, Run(1)>>}

HtmlInputs == SeqsUpTo(HtmlTokens, MaxHtmlLen) \cup HtmlExamples

MaxTextLen == 5

\* The tokens of a statute text: two lettered and two numbered markers,
\* whitespace and a plain character.
TextTokens == {LMark("a"), LMark("b"), NMark("1"), NMark("2"), SP, Run(1)}

\* "(a) First. (1) One. (2) Two. (b) Second."
ExampleText ==
    <<LMark("a"), SP, Run(6), SP, NMark("1"), SP, Run(4), SP, NMark("2"), SP,
      Run(4), SP, LMark("b"), SP, Run(7)>>

\* Texts around the limits of the slices: an intro, a subsection and a
\* paragraph, and a text without markers.
LongTexts ==
    {<<Run(a), SP, LMark("a"), SP, Run(b), SP, NMark("1"), SP, Run(c)>> :
        a \in {MaxIntro, MaxIntro + 1},
        b \in {MaxSubText, MaxSubText + 1},
        c \in {MaxSubText - 1, MaxSubText + 1}}
    \cup {<<Run(n)>> : n \in {MaxContent, MaxContent + 1}}
    \cup {<<Run(MaxContent - 1), SP, SP, LMark("a")>>,
          <<LT, Chr("p"), GT, LMark("a"), SP, Run(MaxSubText - 1), LMark("b"),
            LT, Chr("b"), Chr("r"), GT, LMark("b"), NL, Run(2)>>}

TextExamples == {ExampleText} \cup LongTexts

Histories == {<<>>, <<Run(MaxNote)>>, <<Run(MaxNote - 1), SP, Run(1)>>,
              <<Run(MaxNote + 1)>>}

ParseInputs ==
    (SeqsUpTo(TextTokens, MaxTextLen) \X {<<>>}) \cup (TextExamples \X Histories)

\* Source documents: one without a section entry, the one-entry example
\* (caption "48-1-2", description "Definitions", content "(a) Means this."),
\* and one with a level 4 entry inside a level 3 entry.
Chars48_1_2 == <<"4", "8", "-", "1", "-", "2">>

RootNone ==
    <<Index("1", <<"T", "i", "t", "l", "e", " ", "4", "8">>, <<>>, <<>>, <<>>,
            <<>>)>>

RootOne ==
    <<Index("3", Chars48_1_2, <<Run(11)>>,
            <<LMark("a"), SP, Run(5), SP, Run(5)>>, <<>>, <<>>)>>

RootTwo ==
    <<Index("3", <<"4", "8", "-", "1", "0", "-", "3", ".", "1", " ", "x">>,
            <<Run(5)>>,
            <<Ent("<", 1), Chr("P"), Ent(">", 1), Run(5), SP, LMark("a"), SP,
              Run(3), SP, NMark("1"), SP, Run(3), LT, Chr("B"), Chr("R"), GT,
              LMark("a"), SP, Run(2)>>,
            <<SP, Run(9)>>,
            <<Index("4", Chars48_1_2, <<>>, <<Run(7)>>, <<>>, <<>>)>>),
      Index("2", <<"4", "8", "-", "2", "-", "1">>, <<>>, <<>>, <<>>, <<>>)>>

SampleRoots == {RootNone, RootOne, RootTwo}

MaxEntries == 2

\* Captions: none, blank, a section number between blanks, one with a decimal
\* part and a title, two parts only, four parts, and a number after a point.
Captions ==
    {<<>>, <<" ", " ">>, <<" ">> \o Chars48_1_2 \o <<" ">>,
     <<"4", "8", "-", "1", "0", "-", "3", ".", "1", " ", "x">>,
     <<"1", "-", "2">>, <<"x", " ", "7", "-", "1", "-", "2", "-", "3">>,
     <<"1", ".", "5", "-", "2", "-", "3", ".">>}

Entries == {Index(level, caption, <<>>, <<>>, <<>>, <<>>) :
               level \in {"", "3", "4"}, caption \in Captions}

\* The entries side by side, and the later ones inside the first.
Nested(es) ==
    IF es = <<>> THEN <<>> ELSE <<[Head(es) EXCEPT !.kids = Tail(es)]>>

Roots ==
    SeqsUpTo(Entries, MaxEntries)
    \cup {Nested(es) : es \in SeqsUpTo(Entries, MaxEntries)}
    \cup SampleRoots

MaxSecs == 3

\* Section records for create_akn_document: no chapter key, an empty one,
\* "2" and "10"; two section numbers; no subsection, or two with the same
\* letter, the first with a child.
RecordFields ==
    [section_number : {Chars48_1_2, <<"4", "8", "-", "2", "-", "1">>},
     subsections : {<<>>,
                    <<[identifier |-> "a", text |-> <<Run(1)>>,
                       children |-> <<[identifier |-> "1", text |-> <<Run(2)>>,
                                       children |-> <<>>]>>],
                      [identifier |-> "a", text |-> <<Run(3)>>,
                       children |-> <<>>]>>}]

WithChapter(f, chapter) ==
    [section_number |-> f.section_number, title |-> <<Run(4)>>,
     text |-> <<Run(5)>>, history |-> <<>>, chapter |-> chapter,
     subsections |-> f.subsections]

WithoutChapter(f) ==
    [section_number |-> f.section_number, title |-> <<Run(4)>>,
     text |-> <<Run(5)>>, history |-> <<>>, subsections |-> f.subsections]

DocRecords ==
    {WithChapter(f, c) : f \in RecordFields, c \in {<<>>, <<"2">>, <<"1", "0">>}}
    \cup {WithoutChapter(f) : f \in RecordFields}

MaxDay == 12

FirstDay == Date(2026, 11, 5)

-----------------------------------------------------------------------------
(* Idle values of the variables a specification does not use *)

IdleClean == html_content = <<>> /\ cleaned = None /\ recleaned = None
IdleParse == text = <<>> /\ history = <<>> /\ subsections = None /\ sec_elem = None
IdleDoc   == title_num = 0 /\ sections = <<>> /\ today = 0 /\ akn_doc = None /\ akn_doc2 = None
IdleXml   == source = <<>> /\ records = None
IdleMain  == xml_files = <<>> /\ file_idx = 0 /\ cur = None /\ stats = None /\ outdir = None /\ log = <<>>

-----------------------------------------------------------------------------
(* The text normalizer applied, and applied again to its own output *)

InitClean ==
    /\ pc = "clean"
    /\ html_content \in HtmlInputs
    /\ cleaned = None /\ recleaned = None
    /\ IdleParse /\ IdleDoc /\ IdleXml /\ IdleMain

Clean ==
    /\ pc = "clean"
    /\ cleaned' = clean_html_content(html_content)
    /\ pc' = "reclean"
    /\ UNCHANGED <<html_content, recleaned, parseVars, docVars, xmlVars, mainVars>>

Reclean ==
    /\ pc = "reclean"
    /\ recleaned' = clean_html_content(cleaned)
    /\ pc' = "done"
    /\ UNCHANGED <<html_content, cleaned, parseVars, docVars, xmlVars, mainVars>>

NextClean == Clean \/ Reclean

SpecClean == InitClean /\ [][NextClean]_vars

HasEntity(s) == \E i \in 1..Len(s) : s[i].k = "e"

-----------------------------------------------------------------------------
(* A section's content cleaned, parsed and built into its element *)

SampleNumber == <<"4", "8", "-", "1", "-", "2">>

InitParse ==
    /\ pc = "clean"
    /\ \E inp \in ParseInputs : html_content = inp[1] /\ history = inp[2]
    /\ text = <<>> /\ subsections = None /\ sec_elem = None
    /\ cleaned = None /\ recleaned = None
    /\ IdleDoc /\ IdleXml /\ IdleMain

\* Lines 350-353
CleanContent ==
    /\ pc = "clean"
    /\ text' = IF html_content # <<>> THEN clean_html_content(html_content)
               ELSE <<>>
    /\ pc' = "parse"
    /\ UNCHANGED <<cleanVars, history, subsections, sec_elem, docVars, xmlVars,
                   mainVars>>

\* Line 364
ParseSubsections ==
    /\ pc = "parse"
    /\ subsections' = parse_subsections(text)
    /\ pc' = "section"
    /\ UNCHANGED <<cleanVars, text, history, sec_elem, docVars, xmlVars,
                   mainVars>>

\* Line 235, on the record of lines 366-373
AddSection ==
    /\ pc = "section"
    /\ sec_elem' = add_section_element(
                      [section_number |-> SampleNumber, title |-> <<>>,
                       text |-> text, history |-> history,
                       chapter |-> <<"1">>, subsections |-> subsections])
    /\ pc' = "done"
    /\ UNCHANGED <<cleanVars, text, history, subsections, docVars, xmlVars,
                   mainVars>>

NextParse == CleanContent \/ ParseSubsections \/ AddSection

SpecParse == InitParse /\ [][NextParse]_vars

Parsed == pc \in {"section", "done"}

Min(S) == CHOOSE x \in S : \A y \in S : x <= y

\* The k-th least element of a set of numbers.
Nth(S, k) == CHOOSE x \in S : Cardinality({y \in S : y < x}) = k - 1

\* The positions of the markers of a kind that whitespace follows.
MarkerPoints(s, kind, lo, hi) ==
    {i \in lo..hi : s[i].k = kind /\ i < hi /\ IsWs(s[i + 1])}

\* The last token of the segment of the lettered marker at p: the token before
\* the next lettered marker that whitespace follows.
SegEnd(s, p) ==
    LET later == {q \in MarkerPoints(s, "L", 1, Len(s)) : q > p}
    IN  IF later = {} THEN Len(s) ELSE Min(later) - 1

\* The trimmed text of s[lo..hi] before its first marker of one of the kinds.
TextBefore(s, lo, hi, kinds) ==
    LET ms == {i \in lo..hi : s[i].k \in kinds}
    IN  Strip(SubSeq(s, lo, IF ms = {} THEN hi ELSE Min(ms) - 1))

\* The node the claim describes for the lettered marker at p: the text before
\* the first numbered marker, and a child for every numbered marker.
NodeAsStated(s, p) ==
    LET nums == {q \in (p + 1)..SegEnd(s, p) : IsN(s[q])}
    IN  [identifier |-> s[p].v,
         text       |-> TextBefore(s, p + 1, SegEnd(s, p), {"N"}),
         children   |->
            [j \in 1..Cardinality(nums) |->
                [identifier |-> s[Nth(nums, j)].v,
                 text       |-> TextBefore(s, Nth(nums, j) + 1, SegEnd(s, p),
                                           {"L", "N"}),
                 children   |-> <<>>]]]

\* The node of the amended claim: the text before the first marker of either
\* kind, a child for every numbered marker that whitespace follows, and every
\* text cut to MaxSubText characters.
NodeAmended(s, p) ==
    LET nums == MarkerPoints(s, "N", p + 1, SegEnd(s, p))
    IN  [identifier |-> s[p].v,
         text       |-> Truncate(TextBefore(s, p + 1, SegEnd(s, p), {"L", "N"}),
                                 MaxSubText),
         children   |->
            [j \in 1..Cardinality(nums) |->
                [identifier |-> s[Nth(nums, j)].v,
                 text       |-> Truncate(TextBefore(s, Nth(nums, j) + 1,
                                                    SegEnd(s, p), {"L", "N"}),
                                         MaxSubText),
                 children   |-> <<>>]]]

\* C6 as stated: one node per lettered marker followed by whitespace, in
\* source order; the text before the first numbered marker of its segment is
\* the node's text, and every numbered marker from there on gives one child,
\* with the trimmed text up to the next marker.
C6_AsStated ==
    Parsed =>
        LET points == MarkerPoints(text, "L", 1, Len(text))
        IN  subsections = [k \in 1..Cardinality(points) |->
                              NodeAsStated(text, Nth(points, k))]

\* C6, amended: parse_subsections returns one node per lettered marker
\* followed by whitespace, in source order, with the letter as identifier;
\* the node's text is the trimmed text of its segment before the first marker
\* of either kind (a numbered marker, or a lettered marker that no whitespace
\* follows), and it has one child per numbered marker followed by whitespace,
\* in source order, with the digits as identifier and the trimmed text up to
\* the next marker of either kind as text; the text between the first
\* numbered marker and the first one that whitespace follows is in no node,
\* and every text is cut to 2000 characters.  A text with no lettered marker
\* followed by whitespace gives the empty sequence.
C6_Amended ==
    Parsed =>
        LET points == MarkerPoints(text, "L", 1, Len(text))
        IN  subsections = [k \in 1..Cardinality(points) |->
                              NodeAmended(text, Nth(points, k))]

\* The example of the claim is parsed to a with the children 1 and 2, and b.
C6_Witness ==
    /\ Parsed
    /\ text = ExampleText
    /\ subsections =
          <<[identifier |-> "a", text |-> <<Run(6)>>,
             children |-> <<[identifier |-> "1", text |-> <<Run(4)>>,
                             children |-> <<>>],
                            [identifier |-> "2", text |-> <<Run(4)>>,
                             children |-> <<>>]>>],
            [identifier |-> "b", text |-> <<Run(7)>>, children |-> <<>>]>>

\* The children of the section element with a tag.
KidsOf(e, tag) == {i \in 1..Len(e.kids) : e.kids[i].tag = tag}

\* C4 as stated: in a section with subsections, the intro holds the body text
\* up to the first lettered marker, cut to 500 characters (so no marker and
\* no text of a subsection), and stands before the subsection elements.
C4_IntroIsTextBeforeFirstMarker ==
    (pc = "done" /\ subsections # <<>>) =>
        \A i \in KidsOf(sec_elem, "intro") :
            /\ sec_elem.kids[i].kids[1].text =
                  Truncate(Strip(Upto(text, FirstMarker(text, {"L"}, 1) - 1)),
                           MaxIntro)
            /\ \A j \in KidsOf(sec_elem, "subsection") : i < j

\* The texts of the p elements under the children of the section element
\* with a tag, at the given depth of content elements.
SubsectionTexts(e) ==
    {e.kids[i].kids[2].kids[1].text : i \in KidsOf(e, "subsection")}

ParagraphTexts(e) ==
    UNION {{e.kids[i].kids[j].kids[2].kids[1].text :
               j \in KidsOf(e.kids[i], "paragraph")} :
           i \in KidsOf(e, "subsection")}

\* C7: no emitted text is longer than its limit: the text of a subsection
\* node and of its children 2000 characters, in the parser's result and in
\* the section element; the intro 500, the flat content 5000, the history
\* note 1000.
C7_TextWithinLimits ==
    /\ Parsed =>
          \A k \in 1..Len(subsections) :
             /\ StrLen(subsections[k].text) <= MaxSubText
             /\ \A j \in 1..Len(subsections[k].children) :
                   StrLen(subsections[k].children[j].text) <= MaxSubText
    /\ pc = "done" =>
          /\ \A t \in SubsectionTexts(sec_elem) \cup ParagraphTexts(sec_elem) :
                StrLen(t) <= MaxSubText
          /\ \A i \in KidsOf(sec_elem, "intro") :
                StrLen(sec_elem.kids[i].kids[1].text) <= MaxIntro
          /\ \A i \in KidsOf(sec_elem, "content") :
                StrLen(sec_elem.kids[i].kids[1].text) <= MaxContent
          /\ \A i \in KidsOf(sec_elem, "notes") :
                StrLen(sec_elem.kids[i].kids[1].kids[1].text) <= MaxNote

\* A section whose intro, subsection text, paragraph text and history note
\* are all longer than their limits is emitted with each cut to its limit.
C7_Witness ==
    /\ pc = "done"
    /\ text = <<Run(MaxIntro + 1), SP, LMark("a"), SP, Run(MaxSubText + 1), SP,
                NMark("1"), SP, Run(MaxSubText + 1)>>
    /\ StrLen(history) > MaxNote
    /\ \E i \in KidsOf(sec_elem, "intro") :
          StrLen(sec_elem.kids[i].kids[1].text) = MaxIntro
    /\ \E t \in SubsectionTexts(sec_elem) : StrLen(t) = MaxSubText
    /\ \E t \in ParagraphTexts(sec_elem) : StrLen(t) = MaxSubText
    /\ \E i \in KidsOf(sec_elem, "notes") :
          StrLen(sec_elem.kids[i].kids[1].kids[1].text) = MaxNote

-----------------------------------------------------------------------------
(* create_akn_document on a list of section records *)

InitDoc ==
    /\ pc = "create"
    /\ title_num = 48
    /\ sections \in SeqsUpTo(DocRecords, MaxSecs)
    /\ today = FirstDay
    /\ akn_doc = None /\ akn_doc2 = None
    /\ IdleClean /\ IdleParse /\ IdleXml /\ IdleMain

CreateDocument ==
    /\ pc = "create"
    /\ akn_doc' = create_akn_document(title_num, sections, today)
    /\ pc' = "done"
    /\ UNCHANGED <<cleanVars, parseVars, title_num, sections, today, akn_doc2,
                   xmlVars, mainVars>>

NextDoc == CreateDocument

SpecDoc == InitDoc /\ [][NextDoc]_vars

\* The body of a document, its chapter elements, and the key of one: its num
\* element reads "Chapter " and the key.
BodyOf(doc) == doc.kids[1].kids[2]

ChapterKey(chapter_elem) == Tail(chapter_elem.kids[1].text)

SectionsOf(chapter_elem) ==
    SelectSeq(chapter_elem.kids, LAMBDA e : e.tag = "section")

\* The eIds of the chapters, sections, subsections and paragraphs of a tree,
\* in document order.
RECURSIVE EIds(_)
EIds(e) ==
    LET below[i \in 0..Len(e.kids)] ==
            IF i = 0 THEN <<>> ELSE below[i - 1] \o EIds(e.kids[i])
    IN  (IF e.tag \in {"chapter", "section", "subsection", "paragraph"}
         THEN <<e.attrs.eId>> ELSE <<>>)
        \o below[Len(e.kids)]

\* C2 as stated: in the document of any list of section records, no two of
\* the chapters, sections, subsections and paragraphs have the same eId.
C2_UniqueEIds ==
    pc = "done" =>
        LET ids == EIds(BodyOf(akn_doc))
        IN  \A i, j \in 1..Len(ids) : i # j => ids[i] # ids[j]

\* The chapter key of a record; a record without the key is put under "0".
KeyOf(rec) == IF "chapter" \in DOMAIN rec THEN rec.chapter ELSE <<"0">>

\* C3: the records with an empty chapter key are not in the document; the
\* chapters are those of the other keys, each once, in the order of Python's
\* string comparison; and the sections of a chapter are the elements of the
\* records with its key, in the order of the input.
C3_GroupedByChapter ==
    pc = "done" =>
        LET chapters == BodyOf(akn_doc).kids
            keys == {KeyOf(sections[n]) : n \in 1..Len(sections)}
        IN  /\ {ChapterKey(chapters[i]) : i \in 1..Len(chapters)} = keys \ {<<>>}
            /\ \A i, j \in 1..Len(chapters) :
                  i < j => StrLess(ChapterKey(chapters[i]), ChapterKey(chapters[j]))
            /\ \A i \in 1..Len(chapters) :
                  LET of_key == {n \in 1..Len(sections) :
                                    KeyOf(sections[n]) = ChapterKey(chapters[i])}
                  IN  SectionsOf(chapters[i]) =
                         [m \in 1..Cardinality(of_key) |->
                             add_section_element(sections[Nth(of_key, m)])]

\* Records with the keys "2", "" and "10", in this order, give the chapters
\* "10" and "2".
C3_Witness ==
    /\ pc = "done"
    /\ Len(sections) = 3
    /\ KeyOf(sections[1]) = <<"2">>
    /\ KeyOf(sections[2]) = <<>>
    /\ KeyOf(sections[3]) = <<"1", "0">>
    /\ Len(BodyOf(akn_doc).kids) = 2
    /\ ChapterKey(BodyOf(akn_doc).kids[1]) = <<"1", "0">>
    /\ ChapterKey(BodyOf(akn_doc).kids[2]) = <<"2">>

-----------------------------------------------------------------------------
(* parse_source_xml on a source document *)

InitXml ==
    /\ pc = "parse"
    /\ source \in Roots
    /\ records = None
    /\ IdleClean /\ IdleParse /\ IdleDoc /\ IdleMain

ParseSource ==
    /\ pc = "parse"
    /\ records' = parse_source_xml(source)
    /\ pc' = "done"
    /\ UNCHANGED <<cleanVars, parseVars, docVars, source, mainVars>>

NextXml == ParseSource

SpecXml == InitXml /\ [][NextXml]_vars

\* The text sn is the first match of \d+-\d+-\d+(\.\d+)? in the caption.
IsFirstMatch(caption, sn) ==
    \E i \in 1..Len(caption) :
        /\ SectionNumberEnd(caption, i) = i + Len(sn)
        /\ SubSeq(caption, i, i + Len(sn) - 1) = sn
        /\ \A j \in 1..(i - 1) : SectionNumberEnd(caption, j) = 0

\* The text between the first and the second "-" of sn.
SecondSegment(sn) ==
    LET dashes == {i \in 1..Len(sn) : sn[i] = "-"}
    IN  SubSeq(sn, Nth(dashes, 1) + 1, Nth(dashes, 2) - 1)

\* C9: the records are those of the entries of level 3 or 4 whose caption
\* holds a match of \d+-\d+-\d+, in document order; the section_number of
\* each is not empty and is the first match of \d+-\d+-\d+(\.\d+)? in the
\* caption, and its chapter is the second segment of that number, not empty.
C9_RecordsOfSectionEntries ==
    pc = "done" =>
        LET all  == Iter(source)
            kept == {i \in 1..Len(all) :
                        /\ all[i].Level \in {"3", "4"}
                        /\ \E j \in 1..Len(all[i].Caption) :
                              ThreePartEnd(all[i].Caption, j) > 0}
        IN  /\ Len(records) = Cardinality(kept)
            /\ \A m \in 1..Len(records) :
                  /\ records[m].section_number # <<>>
                  /\ IsFirstMatch(all[Nth(kept, m)].Caption,
                                  records[m].section_number)
                  /\ records[m].chapter = SecondSegment(records[m].section_number)
                  /\ records[m].chapter # <<>>

\* A level 4 entry with a decimal section number inside an entry that is
\* dropped gives the one record, with chapter "10".
C9_Witness ==
    /\ pc = "done"
    /\ Len(source) = 1 /\ Len(source[1].kids) = 1
    /\ source[1].kids[1].Level = "4"
    /\ Len(records) = 1
    /\ records[1].section_number = <<"4", "8", "-", "1", "0", "-", "3", ".", "1">>
    /\ records[1].chapter = <<"1", "0">>

-----------------------------------------------------------------------------
(* The conversion of one title, run twice *)

\* Line 426: the name of the output file.
OutputName(n) == <<"us-ga-title-">> \o Pad2(n) \o <<".akn.xml">>

InitRuns ==
    /\ pc = "first"
    /\ title_num \in {1, 7, 12, 48}
    /\ source \in {RootOne, RootTwo}
    /\ today = FirstDay
    /\ sections = <<>> /\ akn_doc = None /\ akn_doc2 = None
    /\ records = None
    /\ IdleClean /\ IdleParse /\ IdleMain

\* Lines 414-426, for a source with sections.
FirstRun ==
    /\ pc = "first"
    /\ akn_doc' = [output_file |-> OutputName(title_num), ran |-> today,
                   root |-> create_akn_document(
                               title_num, parse_source_xml(source), today)]
    /\ pc' = "second"
    /\ UNCHANGED <<cleanVars, parseVars, title_num, sections, today, akn_doc2,
                   xmlVars, mainVars>>

\* A day passes between the two runs.
Tick ==
    /\ pc = "second"
    /\ today.day < MaxDay
    /\ today' = [today EXCEPT !.day = @ + 1]
    /\ UNCHANGED <<pc, cleanVars, parseVars, title_num, sections, akn_doc,
                   akn_doc2, xmlVars, mainVars>>

SecondRun ==
    /\ pc = "second"
    /\ akn_doc2' = [output_file |-> OutputName(title_num), ran |-> today,
                    root |-> create_akn_document(
                                title_num, parse_source_xml(source), today)]
    /\ pc' = "done"
    /\ UNCHANGED <<cleanVars, parseVars, title_num, sections, today, akn_doc,
                   xmlVars, mainVars>>

NextRuns == FirstRun \/ Tick \/ SecondRun

SpecRuns == InitRuns /\ [][NextRuns]_vars

\* C8 as stated: two runs on the same source give the same output file name
\* and the same tree, every metadata value included.
C8_SameOutput ==
    pc = "done" =>
        /\ akn_doc.output_file = akn_doc2.output_file
        /\ akn_doc.root = akn_doc2.root

\* The date of the FRBRdate of the FRBRManifestation of a document, and the
\* document with that date set to a fixed one.
GenerationDate(doc) ==
    doc.kids[1].kids[1].kids[1].kids[3].kids[3].attrs.date

WithoutGenerationDate(doc) ==
    [doc EXCEPT !.kids[1].kids[1].kids[1].kids[3].kids[3].attrs.date =
                    PublicationDate]

\* C8, amended: two runs on the same source give the same output file name
\* and the same tree, every identifier and every metadata value included,
\* but for the date of the manifestation, which is the day of each run.
C8_SameOutputButGenerationDate ==
    pc = "done" =>
        /\ akn_doc.output_file = akn_doc2.output_file
        /\ WithoutGenerationDate(akn_doc.root) = WithoutGenerationDate(akn_doc2.root)
        /\ GenerationDate(akn_doc.root) = akn_doc.ran
        /\ GenerationDate(akn_doc2.root) = akn_doc2.ran

\* A title with sections is converted on two different days.
C8_Witness ==
    /\ pc = "done"
    /\ akn_doc.ran # akn_doc2.ran
    /\ BodyOf(akn_doc.root).kids # <<>>
    /\ akn_doc.root # akn_doc2.root

-----------------------------------------------------------------------------
(* main: the batch loop *)

\* A source file: the part of its name the "*" of the glob stands for, the
\* document in it, and the step of its iteration that raises, if one does
\* ("parse": the XML is malformed; "build", "serialize", "write": the call
\* raises).
File(star, root, fault) == [star |-> star, root |-> root, fault |-> fault]

\* re.search(r"title\.(\d+)\.xml$", name) on "gov.ga.ocga.2018.title.*.xml":
\* the "*" holds digits alone (no "*" of the model holds a "title." itself).
NameMatches(star) == star # <<>> /\ \A i \in 1..Len(star) : star[i] \in Digits

\* The "*" of the names, in the order sorted() gives the paths: two names of
\* title 1, one of title 2, one without a number.
Stars == <<<<"0", "1">>, <<"1">>, <<"2">>, <<"x">>>>

Faults == {"none", "parse", "build", "serialize", "write"}

\* The files of a batch: any of the four names; a numbered one holds the
\* document without sections (its parsing may fail; no later step is
\* reached), the one-section document with any fault, or the two-section
\* document, whose serialization may fail.
FileChoices ==
    {<<>>}
    \cup {<<File(<<>>, RootNone, fault)>> : fault \in {"none", "parse"}}
    \cup {<<File(<<>>, RootOne, fault)>> : fault \in Faults}
    \cup {<<File(<<>>, RootTwo, fault)>> : fault \in {"none", "serialize"}}

Batches ==
    {LET named(i, c) == IF c = <<>> THEN <<>>
                        ELSE <<[c[1] EXCEPT !.star = Stars[i]]>>
     IN  named(1, c1) \o named(2, c2) \o named(3, c3)
         \o (IF bad THEN <<File(Stars[4], <<>>, "none")>> ELSE <<>>) :
     c1 \in FileChoices, c2 \in FileChoices, c3 \in FileChoices, bad \in BOOLEAN}

\* An output file: the iteration that wrote it (0: a file of an earlier run)
\* and what it holds.
OutFile(by, xml) == [by |-> by, xml |-> xml]

XmlStr(decl, root) == [decl |-> decl, root |-> root]

StaleFile == OutFile(0, XmlStr("<?xml", None))

\* Lines 382-384: minidom's toprettyxml starts the text with a declaration.
pretty_print_xml(elem) == XmlStr("<?xml version=\"1.0\" ?>", elem)

\* Lines 430-431
WithDeclaration(xml_str) ==
    IF xml_str.decl = ""
    THEN XmlStr("<?xml version=\"1.0\" encoding=\"UTF-8\"?>", xml_str.root)
    ELSE xml_str

Event(i, what) == [file |-> i, event |-> what]

mainFrame == <<cleanVars, parseVars, docVars, xmlVars, xml_files>>

InitMain ==
    /\ pc = "start"
    /\ xml_files = <<>>
    /\ file_idx = 0
    /\ cur = None
    /\ stats = [titles_processed |-> 0, sections_converted |-> 0,
                files_written |-> 0]
    /\ outdir = <<>>
    /\ log = <<>>
    /\ title_num = 0 /\ sections = <<>> /\ today = FirstDay
    /\ akn_doc = None /\ akn_doc2 = None
    /\ IdleClean /\ IdleParse /\ IdleXml

\* Lines 389-400: the output directory is there, with or without a file of
\* an earlier run; the files of the source directory are listed.
ListFiles ==
    /\ pc = "start"
    /\ xml_files' \in Batches
    /\ \E old \in {{}, {OutputName(1)}} : outdir' = [name \in old |-> StaleFile]
    /\ pc' = "loop"
    /\ UNCHANGED <<file_idx, cur, stats, log, cleanVars, parseVars, docVars,
                   xmlVars>>

\* Lines 402-407: the next file, its name without a title number.
SkipName ==
    /\ pc = "loop"
    /\ file_idx < Len(xml_files)
    /\ ~NameMatches(xml_files[file_idx + 1].star)
    /\ file_idx' = file_idx + 1
    /\ log' = Append(log, Event(file_idx + 1, "skip_name"))
    /\ UNCHANGED <<pc, cur, stats, outdir, mainFrame>>

\* Lines 402-410: the next file, with its title number.
StartFile ==
    /\ pc = "loop"
    /\ file_idx < Len(xml_files)
    /\ NameMatches(xml_files[file_idx + 1].star)
    /\ file_idx' = file_idx + 1
    /\ cur' = [title_num |-> StrInt(xml_files[file_idx + 1].star)]
    /\ pc' = "parse"
    /\ UNCHANGED <<stats, outdir, log, mainFrame>>

\* An except clause that lets the exception go on.
ExceptReraise(step) ==
    /\ log' = Append(log, Event(file_idx, step))
    /\ pc' = "raised"
    /\ UNCHANGED <<file_idx, cur, stats, mainFrame>>

\* Lines 440-443: the exception of a step is printed and the loop goes on.
Except(step) ==
    /\ log' = Append(log, Event(file_idx, step))
    /\ pc' = "loop"
    /\ UNCHANGED <<file_idx, cur, stats, mainFrame>>

\* Line 414, ET.parse raising.
ParseFail ==
    /\ pc = "parse"
    /\ xml_files[file_idx].fault = "parse"
    /\ Except("parse")
    /\ UNCHANGED outdir

\* A title without sections that is counted as processed.
NoSectionsCounted ==
    /\ pc = "parse"
    /\ xml_files[file_idx].fault # "parse"
    /\ parse_source_xml(xml_files[file_idx].root) = <<>>
    /\ log' = Append(log, Event(file_idx, "no_sections"))
    /\ stats' = [stats EXCEPT !.titles_processed = @ + 1]
    /\ pc' = "loop"
    /\ UNCHANGED <<file_idx, cur, outdir, mainFrame>>

\* Lines 414-418: no section in the source.
NoSections ==
    /\ pc = "parse"
    /\ xml_files[file_idx].fault # "parse"
    /\ parse_source_xml(xml_files[file_idx].root) = <<>>
    /\ log' = Append(log, Event(file_idx, "no_sections"))
    /\ pc' = "loop"
    /\ UNCHANGED <<file_idx, cur, stats, outdir, mainFrame>>

\* Lines 414-420: the sections of the source.
ParseFile ==
    /\ pc = "parse"
    /\ xml_files[file_idx].fault # "parse"
    /\ parse_source_xml(xml_files[file_idx].root) # <<>>
    /\ cur' = [title_num |-> cur.title_num,
               sections  |-> parse_source_xml(xml_files[file_idx].root)]
    /\ pc' = "build"
    /\ UNCHANGED <<file_idx, stats, outdir, log, mainFrame>>

\* Line 423, raising.
BuildFail ==
    /\ pc = "build"
    /\ xml_files[file_idx].fault = "build"
    /\ Except("build")
    /\ UNCHANGED outdir

\* Line 423
BuildDocument ==
    /\ pc = "build"
    /\ xml_files[file_idx].fault # "build"
    /\ cur' = [title_num |-> cur.title_num, sections |-> cur.sections,
               akn_doc |-> create_akn_document(cur.title_num, cur.sections,
                                               today)]
    /\ pc' = "serialize"
    /\ UNCHANGED <<file_idx, stats, outdir, log, mainFrame>>

\* Line 427, raising.
SerializeFail ==
    /\ pc = "serialize"
    /\ xml_files[file_idx].fault = "serialize"
    /\ Except("serialize")
    /\ UNCHANGED outdir

\* Lines 426-431
Serialize ==
    /\ pc = "serialize"
    /\ xml_files[file_idx].fault # "serialize"
    /\ cur' = [title_num |-> cur.title_num, sections |-> cur.sections,
               akn_doc |-> cur.akn_doc,
               output_file |-> OutputName(cur.title_num),
               xml_str |-> WithDeclaration(pretty_print_xml(cur.akn_doc))]
    /\ pc' = "write"
    /\ UNCHANGED <<file_idx, stats, outdir, log, mainFrame>>

\* The directory with the file of a name written.
Written(dir, name, file) ==
    [n \in DOMAIN dir \cup {name} |-> IF n = name THEN file ELSE dir[n]]

\* Line 433, raising: before the file is opened, or with a part of it written.
WriteFail ==
    /\ pc = "write"
    /\ xml_files[file_idx].fault = "write"
    /\ Except("write")
    /\ \/ UNCHANGED outdir
       \/ outdir' = Written(outdir, cur.output_file,
                            OutFile(file_idx, XmlStr("<?xml", None)))

\* Lines 433-438: the file is written and the three counters go up.
WriteOutput ==
    /\ pc = "write"
    /\ xml_files[file_idx].fault # "write"
    /\ outdir' = Written(outdir, cur.output_file, OutFile(file_idx, cur.xml_str))
    /\ stats' = [titles_processed   |-> stats.titles_processed + 1,
                 sections_converted |-> stats.sections_converted
                                        + Len(cur.sections),
                 files_written      |-> stats.files_written + 1]
    /\ log' = Append(log, Event(file_idx, "wrote"))
    /\ pc' = "loop"
    /\ UNCHANGED <<file_idx, cur, mainFrame>>

\* Lines 445-451: the summary, after the last file.
Summary ==
    /\ pc = "loop"
    /\ file_idx = Len(xml_files)
    /\ log' = Append(log, [file |-> 0, event |-> "summary"])
    /\ pc' = "done"
    /\ UNCHANGED <<file_idx, cur, stats, outdir, mainFrame>>

NextMain ==
    \/ ListFiles
    \/ SkipName \/ StartFile
    \/ ParseFail \/ NoSections \/ ParseFile
    \/ BuildFail \/ BuildDocument
    \/ SerializeFail \/ Serialize
    \/ WriteFail \/ WriteOutput
    \/ Summary

SpecMain == InitMain /\ [][NextMain]_vars

\* The files whose iteration ended with an event.
Ended(what) == {log[k].file : k \in {h \in 1..Len(log) : log[h].event \in what}}

\* A failure in parsing, tree building or serialization of one file is
\* caught: the program never leaves the loop but by its end, right after the
\* failure it is back at the head of the loop or already at work on a later
\* file, and at the summary every file has been taken up, a failed one
\* included.
FailureIsCaught ==
    /\ pc \in {"start", "loop", "parse", "build", "serialize", "write", "done"}
    /\ file_idx <= Len(xml_files)
    /\ (log # <<>> /\ log[Len(log)].event \in {"parse", "build", "serialize"})
          => \/ pc = "loop" /\ file_idx = log[Len(log)].file
             \/ file_idx > log[Len(log)].file
    /\ pc = "done" =>
          /\ file_idx = Len(xml_files)
          /\ log[Len(log)].event = "summary"
          /\ \A i \in 1..Len(xml_files) :
                i \in Ended({"skip_name", "no_sections", "parse", "build",
                             "serialize", "write", "wrote"})

\* The title number of a file whose name holds one (line 409).
TitleOf(i) == StrInt(xml_files[i].star)

\* C1 as stated: a failure is caught, the later files are processed, the
\* summary is reached, and no output file exists for a title whose
\* processing failed.
C1_NoFileOfFailedTitle ==
    /\ FailureIsCaught
    /\ \A i \in Ended({"parse", "build", "serialize"}) :
          OutputName(TitleOf(i)) \notin DOMAIN outdir

\* C1, amended: a failure is caught, the later files are processed, the
\* summary is reached, and the iteration of a file that failed in parsing,
\* tree building or serialization has written no output file (a file of the
\* title's name may be there from an earlier run, or from another source
\* file with the same title number).
C1_FailureIsContained ==
    /\ FailureIsCaught
    /\ \A i \in Ended({"parse", "build", "serialize"}) :
          \A name \in DOMAIN outdir : outdir[name].by # i

\* The first file fails in its serialization, a later file of another title
\* is written, and the summary is reached.
C1_Witness ==
    /\ pc = "done"
    /\ 1 \in Ended({"serialize"})
    /\ \E i \in Ended({"wrote"}) :
          /\ i > 1
          /\ OutputName(TitleOf(i)) \in DOMAIN outdir
          /\ OutputName(TitleOf(1)) \notin DOMAIN outdir

\* The sum of the section counts of the sources of a set of files.
RECURSIVE SectionCount(_)
SectionCount(files) ==
    IF files = {} THEN 0
    ELSE LET i == CHOOSE j \in files : TRUE
         IN  Len(parse_source_xml(xml_files[i].root))
             + SectionCount(files \ {i})

\* C10: a file whose name holds no title number and a title without sections
\* are skipped, the step changing neither the output directory nor a counter;
\* at every point titles processed equals files written, and sections
\* converted is the sum of the section counts of the titles written.
C10_SkipsChangeNothing ==
    /\ [](/\ stats.titles_processed = stats.files_written
          /\ stats.files_written = Cardinality(Ended({"wrote"}))
          /\ stats.sections_converted = SectionCount(Ended({"wrote"})))
    /\ [][(/\ Len(log') = Len(log) + 1
           /\ log'[Len(log')].event \in {"skip_name", "no_sections"})
          => (stats' = stats /\ outdir' = outdir)]_vars

\* A batch with a file skipped for its name, a title without sections and a
\* title that is written has come to its summary.
C10_Witness ==
    /\ pc = "done"
    /\ Ended({"skip_name"}) # {}
    /\ Ended({"no_sections"}) # {}
    /\ Ended({"wrote"}) # {}
    /\ stats.files_written = Cardinality(Ended({"wrote"}))

=============================================================================
